---- MODULE Spec2Model ----
(***************************************************************************)
(* Model of codes/sift.py: class SIFT_FeatureExtractor, a Bag-of-Features  *)
(* transformer.  One instance is modelled: its constructor attributes, the *)
(* attributes self.sift and self.kmeans that fit / fit_transform create,   *)
(* and the three public methods.                                           *)
(*                                                                         *)
(* The two libraries the class calls are modelled by what they do on a     *)
(* scaled-down data space:                                                 *)
(*  - a descriptor is one integer (instead of a 128-vector);               *)
(*  - an image is the sequence of its candidate keypoints, each with its   *)
(*    descriptor d, contrast c, edge ratio e and scale s; the SIFT         *)
(*    detector keeps a candidate according to its five tuning parameters;  *)
(*  - KMeans is Lloyd's algorithm with exact rational centroids, started   *)
(*    from pool points chosen by the random state.                         *)
(* Real-valued parameters are scaled to integers: contrastThreshold by     *)
(* 100, sigma by 10.                                                       *)
(***************************************************************************)
EXTENDS Integers, Sequences, FiniteSets, TLC

VARIABLES
    cfg,        \* the constructor attributes (sift_nfeatures .. kmeans_nclusters)
    sift,       \* attribute self.sift   (present = FALSE: no such attribute)
    kmeans,     \* attribute self.kmeans (present = FALSE: no such attribute)
    op,         \* the method just called: "fit", "transform", "fit_transform"; "idle"
                \* when the caller is between calls
    arg,        \* its argument X, a sequence of images
    rnd,        \* the random state the learner drew in that call
    outcome,    \* "ok", or the name of the exception the call raised
    ret,        \* the matrix the call returned (NoMatrix when it returned none)
    pre,        \* the instance (cfg, sift, kmeans) as it was before that call
    called      \* TRUE once fit or fit_transform has been called

vars == <<cfg, sift, kmeans, op, arg, rnd, outcome, ret, pre, called>>

----------------------------------------------------------------------------
(* Bounds of the model. *)

MaxK == 2           \* kmeans_nclusters ranges over 1..MaxK
MaxBatch == 2       \* a batch X holds 1..MaxBatch images

(* Defaults of the constructor (line 21-22); cv2's SIFT_create has the same *)
(* defaults for the parameters a call does not pass.                        *)
DefaultNFeatures == 0
DefaultOctaveLayers == 3
DefaultContrastThreshold == 4       \* 0.04
DefaultEdgeThreshold == 10
DefaultSigma == 16                  \* 1.6

(* The values the constructor arguments range over: the default and one     *)
(* other value of each tuning parameter.                                    *)
NFeaturesValues == {DefaultNFeatures, 1}
OctaveLayersValues == {DefaultOctaveLayers, 4}
ContrastThresholdValues == {DefaultContrastThreshold, 7}
EdgeThresholdValues == {DefaultEdgeThreshold, 5}
SigmaValues == {DefaultSigma, 20}

----------------------------------------------------------------------------
(* The images.  A candidate keypoint is [d, c, e, s]. *)

KpStrong == [d |-> 0, c |-> 5, e |-> 3, s |-> 20]   \* kept by every configuration
KpFaint  == [d |-> 1, c |-> 2, e |-> 3, s |-> 20]   \* contrast 2: threshold/layers decide
KpEdge   == [d |-> 4, c |-> 6, e |-> 7, s |-> 20]   \* edge ratio 7: edgeThreshold decides
KpFine   == [d |-> 5, c |-> 4, e |-> 3, s |-> 16]   \* scale 1.6: sigma decides

ImgBlank == << >>
ImgOne   == << KpStrong >>
ImgMany  == << KpStrong, KpFaint, KpEdge, KpFine, KpStrong >>

Images == {ImgBlank, ImgOne, ImgMany}

RECURSIVE SeqsUpTo(_)
SeqsUpTo(n) ==
    IF n = 0 THEN {<< >>}
    ELSE LET shorter == SeqsUpTo(n - 1)
         IN  shorter \cup {Append(b, i) : b \in {x \in shorter : Len(x) = n - 1}, i \in Images}

Batches == SeqsUpTo(MaxBatch) \ {<< >>}
\* the random states the learner may draw (KMeans is created unseeded)
Seeds == {0, 1}

----------------------------------------------------------------------------
(* cv2.xfeatures2d.SIFT_create and SIFT.detect / SIFT.compute *)

SIFT_create(nfeatures, nOctaveLayers, contrastThreshold, edgeThreshold, sigma) ==
    [present |-> TRUE, nfeatures |-> nfeatures, nOctaveLayers |-> nOctaveLayers,
     contrastThreshold |-> contrastThreshold, edgeThreshold |-> edgeThreshold,
     sigma |-> sigma]

NoSift ==
    [present |-> FALSE, nfeatures |-> 0, nOctaveLayers |-> 0,
     contrastThreshold |-> 0, edgeThreshold |-> 0, sigma |-> 0]

\* The keypoint of kps with the highest response (the first one on a tie).
BestIndex(kps) ==
    CHOOSE i \in 1..Len(kps) :
        \A j \in 1..Len(kps) : kps[j].c < kps[i].c \/ (kps[j].c = kps[i].c /\ i <= j)

RemoveAt(s, i) == [j \in 1..(Len(s) - 1) |-> IF j < i THEN s[j] ELSE s[j + 1]]

RECURSIVE RetainBest(_, _)
RetainBest(kps, n) ==
    IF n = 0 \/ kps = << >> THEN << >>
    ELSE LET i == BestIndex(kps)
         IN  <<kps[i]>> \o RetainBest(RemoveAt(kps, i), n - 1)

\* detect: the keypoints of one image the extractor s keeps.
Detect(s, img) ==
    LET Keeps(kp) == /\ kp.c * s.nOctaveLayers >= s.contrastThreshold
                     /\ kp.e < s.edgeThreshold
                     /\ kp.s >= s.sigma
        kept == SelectSeq(img, Keeps)
    IN  IF s.nfeatures > 0 /\ Len(kept) > s.nfeatures
        THEN RetainBest(kept, s.nfeatures)
        ELSE kept

\* compute: the descriptors of one image; << >> stands for None.
Compute(s, img) ==
    LET kp == Detect(s, img) IN [i \in 1..Len(kp) |-> kp[i].d]

\* des of lines 49-50 / 80-81 / 109-110: one entry per image, in input order.
DetectAndCompute(s, X) == [i \in 1..Len(X) |-> Compute(s, X[i])]

----------------------------------------------------------------------------
(* sklearn.cluster.KMeans.  A centroid is the exact mean sum/count of its   *)
(* members, kept as [s |-> sum, n |-> count].                               *)

KMeans(n_clusters) ==
    [present |-> TRUE, n_clusters |-> n_clusters, fitted |-> FALSE,
     cluster_centers |-> << >>]

NoKMeans ==
    [present |-> FALSE, n_clusters |-> 0, fitted |-> FALSE, cluster_centers |-> << >>]

Abs(x) == IF x < 0 THEN -x ELSE x

\* centroid a is strictly nearer to the descriptor x than centroid b
Nearer(x, a, b) == Abs(x * a.n - a.s) * b.n < Abs(x * b.n - b.s) * a.n

\* KMeans.predict for one descriptor: the label (0-based) of the nearest
\* centroid, the lowest label on a tie (argmin).
PredictOne(centers, x) ==
    CHOOSE j \in 0..(Len(centers) - 1) :
        \A l \in 0..(Len(centers) - 1) :
            \/ Nearer(x, centers[j + 1], centers[l + 1])
            \/ (~Nearer(x, centers[l + 1], centers[j + 1]) /\ j <= l)

\* KMeans.predict for the descriptors of one image
Predict(centers, de) == [p \in 1..Len(de) |-> PredictOne(centers, de[p])]

RECURSIVE SumFrom(_, _, _, _)
\* the sum of the pool entries from position p on whose label is j
SumFrom(pool, labs, j, p) ==
    IF p > Len(pool) THEN 0
    ELSE (IF labs[p] = j THEN pool[p] ELSE 0) + SumFrom(pool, labs, j, p + 1)

\* the sum of the pool entries whose label is j
SumWhere(pool, labs, j) == SumFrom(pool, labs, j, 1)

\* one Lloyd iteration: assign, then move every centroid to its members' mean
\* (a centroid without members stays)
LloydStep(centers, pool) ==
    CHOOSE next \in
        { [c \in 1..Len(centers) |->
              LET members == {p \in 1..Len(pool) : labs[p] = c - 1}
              IN  IF members = {} THEN centers[c]
                  ELSE [s |-> SumWhere(pool, labs, c - 1), n |-> Cardinality(members)]]
          : labs \in {Predict(centers, pool)} } : TRUE

RECURSIVE Lloyd(_, _)
Lloyd(centers, pool) ==
    CHOOSE final \in
        { IF \A c \in 1..Len(centers) : next[c].s * centers[c].n = centers[c].s * next[c].n
          THEN centers
          ELSE Lloyd(next, pool)
          : next \in {LloydStep(centers, pool)} } : TRUE

\* the initial centroids: n_clusters pool points, picked by the random state
InitCenters(pool, n_clusters, seed) ==
    [c \in 1..n_clusters |-> [s |-> pool[((seed + c - 1) % Len(pool)) + 1], n |-> 1]]

\* KMeans.fit(des_all): [km |-> the estimator afterwards, exc |-> "ok" or the
\* exception].  An empty pool, or one with fewer samples than n_clusters,
\* raises ValueError and leaves the estimator unfitted.
KMeansFit(km, pool, seed) ==
    IF Len(pool) = 0 \/ Len(pool) < km.n_clusters
    THEN [km |-> km, exc |-> "ValueError"]
    ELSE [km |-> [km EXCEPT !.fitted = TRUE,
                            !.cluster_centers =
                                Lloyd(InitCenters(pool, km.n_clusters, seed), pool)],
          exc |-> "ok"]

----------------------------------------------------------------------------
(* numpy helpers of the histogram loop *)

NoMatrix == << >>

RECURSIVE SortedSeq(_)
\* the elements of a finite set of integers, ascending
SortedSeq(S) ==
    IF S = {} THEN << >>
    ELSE LET m == CHOOSE x \in S : \A y \in S : x <= y
         IN  <<m>> \o SortedSeq(S \ {m})

\* Unique with the counts forgotten: every label that occurs counts once
Unique_nocounts(labs) ==
    CHOOSE u \in
        { [v |-> v, c |-> [q \in 1..Len(v) |-> 1]]
          : v \in {SortedSeq({labs[p] : p \in 1..Len(labs)})} } : TRUE

\* np.unique(labs, return_counts=True): the sorted distinct labels v and, for
\* each, the number of its occurrences c
Unique(labs) ==
    CHOOSE u \in
        { [v |-> v,
           c |-> [q \in 1..Len(v) |-> Cardinality({p \in 1..Len(labs) : labs[p] = v[q]})]]
          : v \in {SortedSeq({labs[p] : p \in 1..Len(labs)})} } : TRUE

\* BofRow reading the counts by position, as if no label were ever absent
BofRow_sparse(km, de, k) ==
    LET labs == IF de # << >> THEN Predict(km.cluster_centers, de) ELSE << >>
    IN  CHOOSE row \in
            { [j1 \in 1..k |-> IF j1 <= Len(u.c) THEN u.c[j1] ELSE 0]
              : u \in {Unique(labs)} } : TRUE

\* the body of the loop over the images (lines 86-91 and 127-132): row i of Xt.
\* Xt starts as zeros; entry j is written only when label j occurs in v.
BofRow(km, de, k) ==
    LET labs == IF de # << >> THEN Predict(km.cluster_centers, de) ELSE << >>
    IN  CHOOSE row \in
            { [j1 \in 1..k |->
                  IF \E q \in 1..Len(u.v) : u.v[q] = j1 - 1
                  THEN u.c[CHOOSE q \in 1..Len(u.v) : u.v[q] = j1 - 1]
                  ELSE 0]
              : u \in {Unique(labs)} } : TRUE

\* BofExc without the "if de is not None" guard: None has no astype
BofExc_noguard(km, des) ==
    IF \E i \in 1..Len(des) : des[i] = << >> THEN "AttributeError"
    ELSE IF ~km.present THEN "AttributeError"
    ELSE IF ~km.fitted THEN "NotFittedError"
    ELSE "ok"

\* the exception the loop raises, "ok" when it completes: predict is called
\* for every image whose descriptors are not None
BofExc(km, des) ==
    IF \A i \in 1..Len(des) : des[i] = << >> THEN "ok"
    ELSE IF ~km.present THEN "AttributeError"
    ELSE IF ~km.fitted THEN "NotFittedError"
    ELSE "ok"

\* row-concatenation of the descriptors of all images (lines 52-59, 112-119)
RECURSIVE StackAll(_)
StackAll(des) ==
    IF des = << >> THEN << >>
    ELSE Head(des) \o StackAll(Tail(des))

----------------------------------------------------------------------------
(* The methods.  self is [cfg, sift, kmeans]; a method yields the two       *)
(* attributes afterwards, the exception raised ("ok" for none) and the      *)
(* matrix returned.                                                         *)

\* Cluster with the vocabulary size not passed on: a single cluster
Cluster_one(self, des, seed) ==
    KMeansFit(KMeans(1), StackAll(des), seed)

\* lines 51-62 / 111-122: stack the descriptors, create the estimator, fit it
Cluster(self, des, seed) ==
    KMeansFit(KMeans(self.cfg.kmeans_nclusters), StackAll(des), seed)

\* Bof filling the rows from the last image to the first
Bof_reversed(self, km, X, des) ==
    [i \in 1..Len(X) |-> BofRow(km, des[Len(X) + 1 - i], self.cfg.kmeans_nclusters)]

\* lines 82-92 / 123-133: the matrix Xt, one row per image of X, in order
Bof(self, km, X, des) ==
    [i \in 1..Len(X) |-> BofRow(km, des[i], self.cfg.kmeans_nclusters)]

fit(self, X, seed) ==
    LET s == SIFT_create(self.cfg.sift_nfeatures, self.cfg.sift_nOctaveLayers,
                         self.cfg.sift_contrastThreshold, self.cfg.sift_edgeThreshold,
                         self.cfg.sift_sigma)
    IN  CHOOSE out \in
            { [sift |-> s, kmeans |-> r.km, exc |-> r.exc, ret |-> NoMatrix]
              : r \in {Cluster(self, DetectAndCompute(s, X), seed)} } : TRUE

\* lines 80-92, reached when the attribute self.sift exists
Histograms(self, X) ==
    CHOOSE out \in
        { [sift |-> self.sift, kmeans |-> self.kmeans,
           exc |-> BofExc(self.kmeans, des),
           ret |-> IF BofExc(self.kmeans, des) = "ok"
                   THEN Bof(self, self.kmeans, X, des)
                   ELSE NoMatrix]
          : des \in {DetectAndCompute(self.sift, X)} } : TRUE

\* transform taking a missing extractor for "no keypoints anywhere"
transform_lazy(self, X) ==
    IF ~self.sift.present
    THEN [sift |-> self.sift, kmeans |-> self.kmeans, exc |-> "ok",
          ret |-> [i \in 1..Len(X) |-> [j1 \in 1..self.cfg.kmeans_nclusters |-> 0]]]
    ELSE Histograms(self, X)

\* transform creating its extractor anew, as fit_transform does
transform_recreate(self, X) ==
    IF ~self.sift.present
    THEN [sift |-> self.sift, kmeans |-> self.kmeans, exc |-> "AttributeError",
          ret |-> NoMatrix]
    ELSE [Histograms(self, X) EXCEPT
             !.sift = SIFT_create(self.cfg.sift_nfeatures, DefaultOctaveLayers,
                                  DefaultContrastThreshold, DefaultEdgeThreshold,
                                  DefaultSigma)]

\* line 80 reads self.sift: on an instance without that attribute the
\* attribute lookup raises AttributeError
transform(self, X) ==
    IF ~self.sift.present
    THEN [sift |-> self.sift, kmeans |-> self.kmeans, exc |-> "AttributeError",
          ret |-> NoMatrix]
    ELSE Histograms(self, X)

fit_transform(self, X, seed) ==
    LET s == SIFT_create(self.cfg.sift_nfeatures, DefaultOctaveLayers,
                         DefaultContrastThreshold, DefaultEdgeThreshold, DefaultSigma)
    IN  CHOOSE out \in
            UNION { { [sift |-> s, kmeans |-> r.km,
                       exc |-> IF r.exc = "ok" THEN BofExc(r.km, des) ELSE r.exc,
                       ret |-> IF r.exc = "ok" /\ BofExc(r.km, des) = "ok"
                               THEN Bof(self, r.km, X, des)
                               ELSE NoMatrix]
                      : r \in {Cluster(self, des, seed)} }
                    : des \in {DetectAndCompute(s, X)} } : TRUE

----------------------------------------------------------------------------
(* The instance and its single-threaded caller: the caller calls a method,  *)
(* looks at what the call did (op, arg, outcome, ret, pre), and goes on to  *)
(* the next call.                                                           *)

Self == [cfg |-> cfg, sift |-> sift, kmeans |-> kmeans]

\* the constructor arguments: every combination of the parameter values,
\* with every vocabulary size 1..MaxK
Configs ==
    [sift_nfeatures : NFeaturesValues, sift_nOctaveLayers : OctaveLayersValues,
     sift_contrastThreshold : ContrastThresholdValues,
     sift_edgeThreshold : EdgeThresholdValues, sift_sigma : SigmaValues,
     kmeans_nclusters : 1..MaxK]

\* __init__ (lines 26-31): the six attributes are stored, nothing else exists
Init ==
    /\ cfg \in Configs
    /\ sift = NoSift
    /\ kmeans = NoKMeans
    /\ op = "idle"
    /\ arg = << >>
    /\ rnd = 0
    /\ outcome = "ok"
    /\ ret = NoMatrix
    /\ pre = [cfg |-> cfg, sift |-> NoSift, kmeans |-> NoKMeans]
    /\ called = FALSE

Fit(X, seed) ==
    /\ op = "idle"
    /\ \E r \in {fit(Self, X, seed)} :
        /\ sift' = r.sift
        /\ kmeans' = r.kmeans
        /\ outcome' = r.exc
        /\ ret' = r.ret
    /\ op' = "fit"
    /\ arg' = X
    /\ rnd' = seed
    /\ pre' = Self
    /\ called' = TRUE
    /\ UNCHANGED cfg

Transform(X) ==
    /\ op = "idle"
    /\ \E r \in {transform(Self, X)} :
        /\ sift' = r.sift
        /\ kmeans' = r.kmeans
        /\ outcome' = r.exc
        /\ ret' = r.ret
    /\ op' = "transform"
    /\ arg' = X
    /\ rnd' = 0
    /\ pre' = Self
    /\ UNCHANGED <<cfg, called>>

FitTransform(X, seed) ==
    /\ op = "idle"
    /\ \E r \in {fit_transform(Self, X, seed)} :
        /\ sift' = r.sift
        /\ kmeans' = r.kmeans
        /\ outcome' = r.exc
        /\ ret' = r.ret
    /\ op' = "fit_transform"
    /\ arg' = X
    /\ rnd' = seed
    /\ pre' = Self
    /\ called' = TRUE
    /\ UNCHANGED cfg

\* the call is over: the caller drops what it returned and may call again
Return ==
    /\ op # "idle"
    /\ op' = "idle"
    /\ arg' = << >>
    /\ rnd' = 0
    /\ outcome' = "ok"
    /\ ret' = NoMatrix
    /\ pre' = Self
    /\ UNCHANGED <<cfg, sift, kmeans, called>>

Next ==
    \/ \E X \in Batches, seed \in Seeds : Fit(X, seed)
    \/ \E X \in Batches : Transform(X)
    \/ \E X \in Batches, seed \in Seeds : FitTransform(X, seed)
    \/ Return

Spec == Init /\ [][Next]_vars

TypeOK ==
    /\ cfg \in Configs
    /\ op \in {"idle", "fit", "transform", "fit_transform"}
    /\ outcome \in {"ok", "ValueError", "AttributeError", "NotFittedError"}
    /\ sift.present \in BOOLEAN
    /\ kmeans.fitted \in BOOLEAN

----------------------------------------------------------------------------
(* Vocabulary used by the properties below.  They speak of the call the     *)
(* caller is looking at: op, arg, rnd, outcome, ret, and pre / Self, the    *)
(* instance before and after it.                                            *)

K == cfg.kmeans_nclusters

Returned(m) == op = m /\ outcome = "ok"

\* the descriptors the call's extractor detected for image i of the batch
DescriptorsOf(i) == Compute(sift, arg[i])

\* the number of image i's descriptors whose nearest centroid is j
CountNearest(i, j) ==
    CHOOSE n \in
        { Cardinality({p \in 1..Len(de) : PredictOne(kmeans.cluster_centers, de[p]) = j})
          : de \in {DescriptorsOf(i)} } : TRUE

RECURSIVE SumUpTo(_, _)
SumUpTo(s, n) == IF n = 0 THEN 0 ELSE s[n] + SumUpTo(s, n - 1)

SumSeq(s) == SumUpTo(s, Len(s))

\* the number of descriptors the call's extractor detected in the whole batch
PoolSize ==
    CHOOSE n \in
        { SumSeq(lens) : lens \in {[i \in 1..Len(arg) |-> Len(DescriptorsOf(i))]} } : TRUE

\* the extractor the constructor's five tuning parameters describe
ConfiguredSift ==
    SIFT_create(cfg.sift_nfeatures, cfg.sift_nOctaveLayers, cfg.sift_contrastThreshold,
                cfg.sift_edgeThreshold, cfg.sift_sigma)

\* what fit(arg) followed by transform(arg) gives on the instance as it was
\* before the call, the learner drawing the same random state
FitThenTransform ==
    LET f == fit(pre, arg, rnd)
        g == transform([cfg |-> pre.cfg, sift |-> f.sift, kmeans |-> f.kmeans], arg)
    IN  IF f.exc # "ok" THEN [exc |-> f.exc, ret |-> NoMatrix]
        ELSE [exc |-> g.exc, ret |-> g.ret]

----------------------------------------------------------------------------
(* C1: fit_transform(X) returns the same matrix as fit(X) followed by       *)
(* transform(X) on the same batch, for every configuration of the five      *)
(* tuning parameters and every k, the learner being deterministic (same     *)
(* random state).  Stated as the claim makes it; the code violates it.      *)
C1_FitTransformIsFitThenTransform ==
    op = "fit_transform" =>
        /\ outcome = FitThenTransform.exc
        /\ ret = FitThenTransform.ret

(* C2, as claimed: transform on an instance on which neither fit nor        *)
(* fit_transform was ever called fails with NotFittedError and returns no   *)
(* matrix.                                                                  *)
C2_UnfittedTransformRaisesNotFitted ==
    (op = "transform" /\ ~called) => (outcome = "NotFittedError" /\ ret = NoMatrix)

(* C2, amended: transform on an instance on which neither fit nor           *)
(* fit_transform was ever called fails with AttributeError (the instance    *)
(* has no attribute sift) and returns no matrix.                            *)
C2_UnfittedTransformRaisesAttributeError ==
    (op = "transform" /\ ~called) => (outcome = "AttributeError" /\ ret = NoMatrix)

C2_Witness == op = "transform" /\ ~called /\ outcome = "AttributeError"

(* C3, as claimed: fit and fit_transform fail with InsufficientDataError    *)
(* whenever the descriptor pool is empty or smaller than k.                 *)
C3_SmallPoolRaisesInsufficientData ==
    (op \in {"fit", "fit_transform"} /\ PoolSize < K) =>
        (outcome = "InsufficientDataError" /\ ret = NoMatrix)

(* C3, amended: fit and fit_transform fail, with the ValueError the         *)
(* vocabulary learner raises, whenever the descriptor pool is empty or      *)
(* smaller than k; no matrix is returned.                                   *)
C3_SmallPoolRaisesValueError ==
    (op \in {"fit", "fit_transform"} /\ PoolSize < K) =>
        (outcome = "ValueError" /\ ret = NoMatrix)

C3_Witness ==
    /\ op = "fit_transform" /\ outcome = "ValueError"
    /\ PoolSize = 1 /\ K = 2

(* C4: on a fitted instance, transform of n images returns a matrix with    *)
(* exactly n rows and exactly k columns, k being the vocabulary size set at *)
(* construction and used at fit time; row i is the row of image i (the row  *)
(* transform gives for that image alone), in input order.                   *)
C4_TransformShape ==
    (op = "transform" /\ pre.kmeans.fitted) =>
        /\ outcome = "ok"
        /\ Len(ret) = Len(arg)
        /\ K = pre.kmeans.n_clusters
        /\ \A i \in 1..Len(arg) :
              /\ Len(ret[i]) = K
              /\ ret[i] = transform(pre, <<arg[i]>>).ret[1]

C4_Witness ==
    /\ Returned("transform") /\ pre.kmeans.fitted
    /\ Len(arg) = 2 /\ K = 2
    /\ ret[1] # ret[2]

(* C5: in the matrix transform or fit_transform returns, entry (i, j) is    *)
(* the number of image i's descriptors whose nearest centroid is j, for     *)
(* every image i and every j in 0..k-1; a centroid matched by no descriptor *)
(* of image i has entry 0.                                                  *)
C5_EntriesCountNearest ==
    (Returned("transform") \/ Returned("fit_transform")) =>
        \A i \in 1..Len(arg) : \A j \in 0..(K - 1) :
            \E n \in {CountNearest(i, j)} :
                /\ ret[i][j + 1] = n
                /\ n = 0 => ret[i][j + 1] = 0

C5_Witness ==
    /\ Returned("transform") /\ K >= 2
    /\ \E i \in 1..Len(arg) : \E j, l \in 0..(K - 1) :
          /\ CountNearest(i, j) = 0 /\ ret[i][j + 1] = 0
          /\ ret[i][l + 1] >= 2

(* C6: the sum of an image's row equals the number of descriptors the       *)
(* extractor detected for that image, for images with exactly one           *)
(* descriptor as for images with many.                                      *)
C6_RowSumIsDescriptorCount ==
    (Returned("transform") \/ Returned("fit_transform")) =>
        \A i \in 1..Len(arg) : SumSeq(ret[i]) = Len(DescriptorsOf(i))

C6_Witness ==
    /\ Returned("transform")
    /\ \E i \in 1..Len(arg) : Len(DescriptorsOf(i)) = 1 /\ SumSeq(ret[i]) = 1
    /\ \E i \in 1..Len(arg) : Len(DescriptorsOf(i)) >= 3 /\ SumSeq(ret[i]) >= 3

(* C7: an image for which the extractor returns no descriptors yields an    *)
(* all-zero row of length k in the output of transform and of               *)
(* fit_transform, and does not make the call fail: transform on a fitted    *)
(* instance succeeds, and so does fit_transform whenever the other images   *)
(* supply at least k descriptors.                                           *)
C7_BlankImageGivesZeroRow ==
    /\ (Returned("transform") \/ Returned("fit_transform")) =>
          \A i \in 1..Len(arg) :
              DescriptorsOf(i) = << >> => ret[i] = [j1 \in 1..K |-> 0]
    /\ (op = "transform" /\ pre.kmeans.fitted) => outcome = "ok"
    /\ (op = "fit_transform" /\ PoolSize >= K) => outcome = "ok"

C7_Witness ==
    /\ Returned("fit_transform")
    /\ Len(arg) = 2
    /\ DescriptorsOf(1) = << >> /\ DescriptorsOf(2) # << >>
    /\ ret[1] = [j1 \in 1..K |-> 0]

(* C8: transform has no side effects: after a transform call the stored     *)
(* vocabulary, the stored extractor and the configuration are what they     *)
(* were before it, so a second transform of the same images returns the     *)
(* same matrix.                                                             *)
C8_TransformHasNoSideEffects ==
    op = "transform" =>
        /\ Self = pre
        /\ \E again \in {transform(Self, arg)} :
              again.exc = outcome /\ again.ret = ret

C8_Witness ==
    /\ Returned("transform") /\ pre.kmeans.fitted
    /\ \E i \in 1..Len(arg) : DescriptorsOf(i) # << >>

(* C9: after any sequence of fit and fit_transform calls, the extractor     *)
(* every extraction uses is configured with all five tuning parameters      *)
(* given at construction.  Stated as the claim makes it; the code violates  *)
(* it.                                                                      *)
C9_ExtractorUsesAllFiveParameters ==
    called => sift = ConfiguredSift

(* C10: a fit or fit_transform call that fails leaves the instance as it    *)
(* was before the call, so that a later transform behaves as it would have  *)
(* before the failed call (it fails on an Unfitted instance, it returns the *)
(* same matrix on a Fitted one).  Stated as the claim makes it; the code    *)
(* violates it.                                                             *)
C10_FailedFitLeavesInstanceUnchanged ==
    (op \in {"fit", "fit_transform"} /\ outcome # "ok") =>
        /\ Self = pre
        /\ \A X \in Batches :
              /\ transform(Self, X).exc = transform(pre, X).exc
              /\ transform(Self, X).ret = transform(pre, X).ret

====
